---- MODULE Spec2Model ----
(***************************************************************************)
(* Model of umbrella.py: the command-line report client for the Umbrella   *)
(* API.  One run of main() is a state machine over the parsed arguments,   *)
(* the cached OAuth2 token, the HTTP exchanges and the pagination state.   *)
(* Strings the code inspects (dates, verdicts) are sequences of            *)
(* one-character strings, so that substring search, int() parsing,         *)
(* strip(), lower() and split(",") are computed, not assumed.              *)
(***************************************************************************)
EXTENDS Integers, Sequences, FiniteSets, TLC

(***************************************************************************)
(* Bounds of the model.                                                    *)
(***************************************************************************)
\* pieces concatenated into a date string handed to the validators
MaxParts == 2
\* 429/503/504 answers the server gives in one run
MaxTransient == 2
\* full pages the server returns before it must return a short one
MaxFullPages == 2
\* validate_verdict on its own: the pieces a verdict string is made of, at most
MaxVerdictParts == 4
\* present_as_table on its own: the raw events or items of a list, at most
MaxEvents == 3
\* nested calls of query the interpreter allows before it raises
\* RecursionError (sys.getrecursionlimit(), 1000 by default, scaled down)
RecursionLimit == 4

(***************************************************************************)
(* Values.                                                                 *)
(***************************************************************************)
\* Python's None and a command-line option that was not given.  Every real
\* character is a one-character string, so neither is a string of the program.
None == <<"None">>
Absent == <<"Absent">>

\* the outcome of a call: the value returned, or the exception raised
Return(v) == [exc |-> "none", val |-> v]
Raise(e) == [exc |-> e, val |-> None]

\* int(time.time()) at the moment check_date runs
Now == 5

(***************************************************************************)
(* Strings as sequences of characters.                                     *)
(***************************************************************************)
IsStr(v) == v # None /\ v # Absent

\* s[i:] of Python
Drop(s, n) == SubSeq(s, n + 1, Len(s))

\* s.startswith(w)
StartsWith(s, w) == Len(w) <= Len(s) /\ SubSeq(s, 1, Len(w)) = w

\* `w in s` for two strings: scan the start positions left to right
RECURSIVE Contains(_, _)
Contains(s, w) ==
    IF Len(s) < Len(w) THEN FALSE
    ELSE IF StartsWith(s, w) THEN TRUE
    ELSE Contains(Drop(s, 1), w)

Digits == {"0", "1", "2", "3", "4", "5", "6", "7", "8", "9"}

DigitVal(c) ==
    CASE c = "0" -> 0 [] c = "1" -> 1 [] c = "2" -> 2 [] c = "3" -> 3
      [] c = "4" -> 4 [] c = "5" -> 5 [] c = "6" -> 6 [] c = "7" -> 7
      [] c = "8" -> 8 [] c = "9" -> 9

RECURSIVE DigitsVal(_, _)
DigitsVal(s, acc) ==
    IF s = <<>> THEN acc ELSE DigitsVal(Drop(s, 1), 10 * acc + DigitVal(s[1]))

AllDigits(s) == Len(s) > 0 /\ \A i \in 1..Len(s) : s[i] \in Digits

\* int(value): an optional sign and at least one digit, else ValueError.
\* (Whitespace, "+" and "_" are not in the alphabet of the model.)
IntParses(s) ==
    IF Len(s) > 0 /\ s[1] = "-" THEN AllDigits(Drop(s, 1)) ELSE AllDigits(s)

IntOf(s) ==
    IF s[1] = "-" THEN 0 - DigitsVal(Drop(s, 1), 0) ELSE DigitsVal(s, 0)

(***************************************************************************)
(* Date validators (is_relative_date, check_date, validate_dates).         *)
(***************************************************************************)
valid_words ==
    << <<"d", "a", "y", "s">>,
       <<"w", "e", "e", "k", "s">>,
       <<"m", "i", "n", "u", "t", "e", "s">>,
       <<"n", "o", "w">>,
       <<"s", "e", "c", "o", "n", "d", "s">> >>

\* any(word in value for word in valid_words), for a string
is_relative_date(value) ==
    \E k \in 1..Len(valid_words) : Contains(value, valid_words[k])

\* `word in None` raises TypeError
is_relative_date_raises(value) == ~IsStr(value)

\* the comparison with the current time left out
not_in_future_Unchecked(t) == TRUE

\* int(time.time()) - int(value) >= 0
not_in_future(t) == Now - t >= 0

\* returns the value, or None for a future timestamp and for a ValueError
check_date(value) ==
    IF is_relative_date(value) THEN value
    ELSE IF IntParses(value) /\ not_in_future(IntOf(value)) THEN value
    ELSE None

\* only a relative from_date with an absolute to_date rejected
mixed_dates_OneSided(from_date, to_date) ==
    is_relative_date(from_date) /\ ~is_relative_date(to_date)

\* is_relative_date(from_date) != is_relative_date(to_date)
mixed_dates(from_date, to_date) ==
    is_relative_date(from_date) # is_relative_date(to_date)

\* True, or the exception raised (from_date is examined first)
validate_dates(from_date, to_date) ==
    IF is_relative_date_raises(from_date) \/ is_relative_date_raises(to_date)
    THEN Raise("TypeError")
    ELSE IF mixed_dates(from_date, to_date) THEN Raise("ValueError")
    ELSE Return(<<"True">>)

(***************************************************************************)
(* validate_verdict.                                                       *)
(***************************************************************************)
Lower(c) ==
    CASE c = "A" -> "a" [] c = "B" -> "b" [] c = "L" -> "l" [] c = "O" -> "o"
      [] c = "W" -> "w" [] c = "E" -> "e" [] c = "D" -> "d" [] c = "C" -> "c"
      [] c = "K" -> "k" [] c = "P" -> "p" [] c = "R" -> "r" [] c = "X" -> "x"
      [] c = "I" -> "i"
      [] OTHER -> c

\* str.lower()
lower(s) == [i \in 1..Len(s) |-> Lower(s[i])]

Whitespace == {" "}

RECURSIVE lstrip(_)
lstrip(s) == IF s # <<>> /\ s[1] \in Whitespace THEN lstrip(Drop(s, 1)) ELSE s

RECURSIVE rstrip(_)
rstrip(s) ==
    IF s # <<>> /\ s[Len(s)] \in Whitespace THEN rstrip(SubSeq(s, 1, Len(s) - 1))
    ELSE s

\* the entries left untrimmed
strip_None(s) == s

\* str.strip()
strip(s) == rstrip(lstrip(s))

\* str.split(","): the list of fields, empty fields kept
RECURSIVE split(_, _)
split(s, cur) ==
    IF s = <<>> THEN <<cur>>
    ELSE IF s[1] = "," THEN <<cur>> \o split(Drop(s, 1), <<>>)
    ELSE split(Drop(s, 1), Append(cur, s[1]))

valid_verdicts ==
    { <<"a", "l", "l", "o", "w", "e", "d">>,
      <<"b", "l", "o", "c", "k", "e", "d">>,
      <<"p", "r", "o", "x", "i", "e", "d">> }

\* `if verdict:` is false for None and for the empty string
Truthy(v) == v # None /\ v # <<>>

verdicts(verdict) ==
    LET parts == split(verdict, <<>>)
    IN  {lower(strip(parts[i])) : i \in 1..Len(parts)}

\* the verdict unchanged, or the exception raised
validate_verdict(verdict) ==
    IF Truthy(verdict) /\ ~(verdicts(verdict) \subseteq valid_verdicts)
    THEN Raise("ValueError")
    ELSE Return(verdict)

(***************************************************************************)
(* The command line and the environment of one run.                        *)
(***************************************************************************)
S_now == <<"n", "o", "w">>
S_1days == <<"-", "1", "d", "a", "y", "s">>
S_3 == <<"3">>
S_9 == <<"9">>
S_x == <<"x">>
S_Blocked == <<"B", "l", "o", "c", "k", "e", "d">>
S_allow == <<"a", "l", "l", "o", "w">>

\* values of --from_date and of --to_date tried in a run: relative, a past
\* timestamp, a future timestamp, not a date
FromDates == {S_1days, S_3, S_9, S_x}
ToDates == {S_3, S_9, S_x}
\* values of --verdict tried in a run
ArgVerdicts == {S_Blocked, S_allow}
\* values of --report_type tried in a run; "summary" is not among the choices
ArgReportTypes == {"deployment", "activity", "summary"}

report_type_choices == {"deployment", "activity"}

limit == 100

(***************************************************************************)
(* The server.  The n-th POST to the token endpoint that succeeds returns  *)
(* token n.  The categories endpoint returns a list of entries in id       *)
(* order; a report endpoint returns a page of PageSizes entries, entry i   *)
(* of the page at offset o being item o + i of the report.                 *)
(***************************************************************************)
NoneTok == [py_none |-> TRUE]
TokenBody(n) == [access_token |-> n]
\* a 2xx answer of the token endpoint that carries no access_token
BadTokenBody == [message |-> "denied"]

\* the category taxonomy of the server, in id order; two of its security
\* categories carry the same label
Taxonomy ==
    << [id |-> 1, label |-> "Malware", type |-> "security"],
       [id |-> 2, label |-> "Games", type |-> "content"],
       [id |-> 3, label |-> "Malware", type |-> "security"],
       [id |-> 4, label |-> "Phishing", type |-> "security"] >>

\* the categories response holds the first two entries of the taxonomy or more
CategoryLists == {SubSeq(Taxonomy, 1, n) : n \in 2..Len(Taxonomy)}

\* a JSON body without a "data" key
NoDataBody == [meta |-> "empty"]
DataBody(d) == [data |-> d]

PageSizes == {37, limit}

DigitChars == <<"0", "1", "2", "3", "4", "5", "6", "7", "8", "9">>

\* the date of item n: n in three digits, so that later items have greater dates
Pad3(n) ==
    << DigitChars[((n \div 100) % 10) + 1], DigitChars[((n \div 10) % 10) + 1],
       DigitChars[(n % 10) + 1] >>

ReportItem(report_type, n) ==
    IF report_type = "deployment"
    THEN [type |-> [label |-> IF n % 2 = 0 THEN "Windows" ELSE "macOS"],
          activecount |-> n % 3, count |-> n]
    ELSE [identities |-> <<[label |-> IF n % 2 = 0 THEN "alice" ELSE "bob"]>>,
          domain |-> IF n % 3 = 0 THEN "example.com" ELSE "example.org",
          policycategories |-> <<[label |-> IF n % 5 = 0 THEN "Malware" ELSE "Phishing"]>>,
          date |-> Pad3(n)]

\* A data array is kept as the sequence of the numbers of its items; the
\* content of item n is ReportItem(report_type, n).
ServerPage(off, size) == [i \in 1..size |-> off + i]

TransientStatuses == {429, 503, 504}
\* HTTP error statuses the server answers with, besides the transient ones
FatalStatuses == {401, 404}
\* requests exceptions other than HTTPError
NetworkErrors == {"ConnectionError", "Timeout", "RequestException"}

(***************************************************************************)
(* State.                                                                  *)
(***************************************************************************)
VARIABLES
    argv,            \* the command line: report_type, from_date, to_date, verdict
    env,             \* whether API_KEY and API_SECRET are defined
    pc,              \* where main() is
    err,             \* the exception that ended the run, "none" otherwise
    args,            \* the namespace parse_args returned
    token,           \* authenticator.token
    net,             \* the HTTP exchanges of the run, in order
    qEndpoint,       \* the endpoint of the query call in progress
    qCaller,         \* who called query: "categories" or "page"
    resp,            \* what the last query call returned
    category_filter, \* ids joined by ","
    offset,
    all_data,
    printed,         \* what the run printed
    call,            \* a validator called on its own: its name and arguments
    result           \* and its outcome

vars == <<argv, env, pc, err, args, token, net, qEndpoint, qCaller, resp,
          category_filter, offset, all_data, printed, call, result>>

NoArgs == [report_type |-> "", from_date |-> None, to_date |-> None, verdict |-> None]
NoEndpoint == [path |-> ""]
NoCall == [fn |-> "", a |-> None, b |-> None]
NoResult == Raise("not called")

Init ==
    /\ argv \in [report_type : ArgReportTypes,
                 from_date : FromDates \cup {Absent},
                 to_date : ToDates \cup {Absent},
                 verdict : ArgVerdicts \cup {Absent}]
    /\ env \in BOOLEAN
    /\ pc = "parse"
    /\ err = "none"
    /\ args = NoArgs
    /\ token = NoneTok
    /\ net = <<>>
    /\ qEndpoint = NoEndpoint
    /\ qCaller = ""
    /\ resp = NoDataBody
    /\ category_filter = <<>>
    /\ offset = 0
    /\ all_data = <<>>
    /\ printed = <<>>
    /\ call = NoCall
    /\ result = NoResult

runVars == <<token, net, qEndpoint, qCaller, resp, category_filter, offset,
             all_data, printed>>
fnVars == <<call, result>>

\* an uncaught exception, or argparse's exit, ends the run
Fail(e) == pc' = "error" /\ err' = e

(***************************************************************************)
(* main(), lines 235-272: parse_args and validate_dates.                   *)
(***************************************************************************)
\* argparse: the namespace, or the error it exits with
parse_args(av) ==
    IF av.report_type \notin report_type_choices THEN Raise("SystemExit")
    ELSE IF av.from_date = Absent THEN Raise("SystemExit")
    ELSE IF av.verdict # Absent /\ validate_verdict(av.verdict).exc # "none"
    THEN Raise("SystemExit")
    ELSE [exc |-> "none",
          val |-> [report_type |-> av.report_type,
                   from_date |-> check_date(av.from_date),
                   to_date |-> check_date(IF av.to_date = Absent THEN S_now
                                          ELSE av.to_date),
                   verdict |-> IF av.verdict = Absent THEN None
                               ELSE validate_verdict(av.verdict).val]]

ParseArgs ==
    /\ pc = "parse"
    /\ LET r == parse_args(argv) IN
       IF r.exc # "none"
       THEN Fail(r.exc) /\ UNCHANGED args
       ELSE pc' = "validate" /\ args' = r.val /\ UNCHANGED err
    /\ UNCHANGED <<argv, env, runVars, fnVars>>

ValidateDates ==
    /\ pc = "validate"
    /\ LET r == validate_dates(args.from_date, args.to_date) IN
       IF r.exc # "none" THEN Fail(r.exc) ELSE pc' = "config" /\ UNCHANGED err
    /\ UNCHANGED <<argv, env, args, runVars, fnVars>>

(***************************************************************************)
(* Config(), lines 275-278.                                                *)
(***************************************************************************)
LoadConfig ==
    /\ pc = "config"
    /\ IF ~env
       THEN Fail("UndefinedValueError") /\ UNCHANGED <<qEndpoint, qCaller>>
       ELSE \* line 281: get_security_category_ids -> api_client.query("categories")
            /\ pc' = "query"
            /\ qEndpoint' = [path |-> "categories"]
            /\ qCaller' = "categories"
            /\ UNCHANGED err
    /\ UNCHANGED <<argv, env, args, token, net, resp, category_filter, offset,
                   all_data, printed, fnVars>>

(***************************************************************************)
(* OAuth2Authenticator.authenticate and UmbrellaAPIClient.query.           *)
(***************************************************************************)
Exchange(method, url, bearer, status, exc, body, sleep) ==
    [method |-> method, url |-> url, bearer |-> bearer, status |-> status,
     exc |-> exc, body |-> body, sleep |-> sleep]

Posts(h) == {i \in 1..Len(h) : h[i].method = "POST"}
Gets(h) == {i \in 1..Len(h) : h[i].method = "GET"}
TransientCount(h) == Cardinality({i \in Gets(h) : h[i].status \in TransientStatuses})

\* authenticating on every call
NeedsAuth_Always(tok) == TRUE

\* `not self.authenticator.token`
NeedsAuth(tok) == tok = NoneTok

\* what the token endpoint may answer: a status and a body, or no answer
PostOutcomes(h) ==
    {[status |-> 200, exc |-> "none", body |-> b] :
        b \in {TokenBody(Cardinality(Posts(h)) + 1), BadTokenBody}}
    \cup {[status |-> st, exc |-> "HTTPError", body |-> NoDataBody] :
            st \in TransientStatuses \cup FatalStatuses}
    \cup {[status |-> 0, exc |-> e, body |-> NoDataBody] : e \in NetworkErrors}

\* raise_for_status left out: only a missing answer counts as a failure
AuthFailed_NoRaiseForStatus(o) == o.exc \notin {"none", "HTTPError"}

\* lines 69-70 and 74: the POST failed (no answer, or raise_for_status raised)
AuthFailed(o) == o.exc # "none"

\* lines 88-92: the token is missing, so query calls authenticate (61-76) and
\* then builds the Authorization header from the token
Authenticate ==
    /\ pc = "query"
    /\ NeedsAuth(token)
    /\ \E o \in PostOutcomes(net) :
        /\ net' = Append(net, Exchange("POST", [path |-> "token"], 0, o.status,
                                       o.exc, o.body, 0))
        /\ IF AuthFailed(o)
           THEN Fail(o.exc) /\ UNCHANGED token
           ELSE /\ token' = o.body
                /\ IF "access_token" \in DOMAIN o.body
                   THEN pc' = "get" /\ UNCHANGED err
                   ELSE Fail("KeyError")
    /\ UNCHANGED <<argv, env, args, qEndpoint, qCaller, resp, category_filter,
                   offset, all_data, printed, fnVars>>

\* the bodies a 200 answer to a GET of the endpoint may carry
GetBodies(ep, h) ==
    IF ep.path = "categories"
    THEN {DataBody(c) : c \in CategoryLists} \cup {NoDataBody}
    ELSE LET full == Cardinality({i \in Gets(h) :
                        /\ h[i].status = 200
                        /\ h[i].url.path # "categories"
                        /\ "data" \in DOMAIN h[i].body
                        /\ Len(h[i].body.data) >= limit})
         IN  {DataBody(ServerPage(ep.offset, n)) :
                 n \in {m \in PageSizes : m < limit \/ full < MaxFullPages}}
             \cup {NoDataBody}

\* what a report or categories endpoint may answer
GetOutcomes(ep, h) ==
    {[status |-> 200, exc |-> "none", body |-> b] : b \in GetBodies(ep, h)}
    \cup {[status |-> st, exc |-> "HTTPError", body |-> NoDataBody] :
            st \in {t \in TransientStatuses : TransientCount(h) < MaxTransient}
                   \cup FatalStatuses}
    \cup {[status |-> 0, exc |-> e, body |-> NoDataBody] : e \in NetworkErrors}

\* 504 left out of the list of line 110
Retried_No504(status) == status = 429 \/ status \in {503}

\* 401 handled like the transient statuses
Retried_With401(status) == status \in {401, 429} \/ status \in {503, 504}

\* only the rate limit retried
Retried_Only429(status) == status = 429

\* lines 104 and 110: the statuses query retries
Retried(status) == status = 429 \/ status \in {503, 504}

\* a timeout retried like a 503
ShouldRetry_Timeout(exc, status) ==
    exc = "Timeout" \/ (exc = "HTTPError" /\ status \in {429, 503, 504})

\* no answer retried
ShouldRetry_Never(exc, status) == FALSE

\* lines 103-116: only an HTTPError is examined for a retry
ShouldRetry(exc, status) == exc = "HTTPError" /\ Retried(status)

\* lines 108 and 115: time.sleep before the retry
Backoff(status) == IF status = 429 THEN 60 ELSE 30

\* the retries in progress: every 429/503/504 answer at the end of the history
\* left one call of query waiting for the call it made at line 109 or 116
RetryDepth(h) ==
    LET other == {i \in 1..Len(h) : h[i].sleep = 0}
    IN  Len(h) - (IF other = {} THEN 0
                  ELSE CHOOSE i \in other : \A j \in other : j <= i)

\* lines 93-125: the GET and what query does with the answer, the answer
\* being one of outcomes.  The retry is a call of query inside query: it
\* raises RecursionError, which nothing catches, once RecursionLimit calls
\* are waiting.
QueryWith(outcomes) ==
    /\ pc = "get" \/ (pc = "query" /\ ~NeedsAuth(token))
    /\ \E o \in outcomes :
        LET retry == ShouldRetry(o.exc, o.status) IN
        /\ net' = Append(net, Exchange("GET", qEndpoint, token.access_token,
                                       o.status, o.exc, o.body,
                                       IF retry THEN Backoff(o.status) ELSE 0))
        /\ IF o.exc = "none"
           THEN /\ resp' = o.body
                /\ pc' = IF qCaller = "categories" THEN "got_categories"
                         ELSE "got_page"
                /\ UNCHANGED err
           ELSE IF retry
           THEN \* return self.query(endpoint)
                IF RetryDepth(net') >= RecursionLimit
                THEN Fail("RecursionError") /\ UNCHANGED resp
                ELSE pc' = "query" /\ UNCHANGED <<err, resp>>
           ELSE Fail(o.exc) /\ UNCHANGED resp
    /\ UNCHANGED <<argv, env, args, token, qEndpoint, qCaller, category_filter,
                   offset, all_data, printed, fnVars>>

QueryGet == QueryWith(GetOutcomes(qEndpoint, net))

(***************************************************************************)
(* get_security_category_ids, lines 131-135, and line 282.                 *)
(***************************************************************************)
\* response.get("data", [])
Data(body) == IF "data" \in DOMAIN body THEN body.data ELSE <<>>

\* d[k] = v on a dict kept as the sequence of its items in insertion order
DictSet(d, k, v) ==
    IF \E i \in 1..Len(d) : d[i].key = k
    THEN [i \in 1..Len(d) |-> IF d[i].key = k THEN [key |-> k, value |-> v] ELSE d[i]]
    ELSE Append(d, [key |-> k, value |-> v])

is_security(category) == category.type = "security"

RECURSIVE category_map(_, _)
category_map(cats, d) ==
    IF cats = <<>> THEN d
    ELSE category_map(Drop(cats, 1),
                      IF is_security(cats[1])
                      THEN DictSet(d, cats[1].label, cats[1].id) ELSE d)

get_security_category_ids(body) == category_map(Data(body), <<>>)

\* ",".join(str(id) for id in category_ids.values()): the ids in dict order
join_ids(d) == [i \in 1..Len(d) |-> d[i].value]

(***************************************************************************)
(* The pagination loop, lines 289-316.                                     *)
(***************************************************************************)
\* lines 290-302: the endpoint of the page at offset off
Endpoint(a, cf, off) ==
    IF a.report_type = "deployment"
    THEN [path |-> "deployment-status", from |-> a.from_date, to |-> a.to_date,
          limit |-> limit, offset |-> off]
    ELSE IF Truthy(a.verdict)
    THEN [path |-> "activity", from |-> a.from_date, to |-> a.to_date,
          limit |-> limit, offset |-> off, verdict |-> a.verdict,
          categories |-> cf]
    ELSE [path |-> "activity", from |-> a.from_date, to |-> a.to_date,
          limit |-> limit, offset |-> off, categories |-> cf]

\* lines 131-135 and 282-309: the category filter, then the first pass of the
\* loop up to its call of query
BuildCategoryFilter ==
    /\ pc = "got_categories"
    /\ category_filter' = join_ids(get_security_category_ids(resp))
    /\ offset' = 0
    /\ all_data' = <<>>
    /\ qEndpoint' = Endpoint(args, category_filter', offset')
    /\ qCaller' = "page"
    /\ pc' = "query"
    /\ UNCHANGED <<argv, env, err, args, token, net, resp, printed, fnVars>>

\* line 311: all_data.extend(data)
Extend(acc, data) == acc \o data

\* the loop left after the first page, whatever its length
LastPage_Always(data) == TRUE

\* line 314: len(data) < limit
LastPage(data) == Len(data) < limit

\* the page number instead of the row offset
NextOffset_PageNumber(off) == off + 1

\* line 316
NextOffset(off) == off + limit

(***************************************************************************)
(* DataPresenter.present_as_table, lines 173-213.                          *)
(***************************************************************************)
\* ord(c) for the characters of dates
CodePoint(c) ==
    CASE c = "0" -> 48 [] c = "1" -> 49 [] c = "2" -> 50 [] c = "3" -> 51
      [] c = "4" -> 52 [] c = "5" -> 53 [] c = "6" -> 54 [] c = "7" -> 55
      [] c = "8" -> 56 [] c = "9" -> 57 [] c = "-" -> 45 [] c = "/" -> 47
      [] c = ":" -> 58 [] c = "A" -> 65 [] c = "N" -> 78 [] c = "T" -> 84
      [] c = "Z" -> 90

\* a[i:] < b[i:] when a and b agree before position i
RECURSIVE StrLessFrom(_, _, _)
StrLessFrom(a, b, i) ==
    IF i > Len(b) THEN FALSE
    ELSE IF i > Len(a) THEN TRUE
    ELSE IF a[i] = b[i] THEN StrLessFrom(a, b, i + 1)
    ELSE CodePoint(a[i]) < CodePoint(b[i])

\* a < b for two strings
StrLess(a, b) == StrLessFrom(a, b, 1)

S_NA == <<"N", "/", "A">>

\* lines 188-191: the fields of an event, with their defaults
EventIdentity(item) ==
    IF "identities" \in DOMAIN item THEN item.identities[1].label ELSE "Unknown"
EventDomain(item) == IF "domain" \in DOMAIN item THEN item.domain ELSE "N/A"
EventCategory(item) ==
    IF "policycategories" \in DOMAIN item THEN item.policycategories[1].label
    ELSE "N/A"
EventDate(item) == IF "date" \in DOMAIN item THEN item.date ELSE S_NA

\* line 195: the date kept is replaced by a greater one
LaterDate(kept, seen) == IF StrLess(kept, seen) THEN seen ELSE kept

\* lines 185 and 195-196 over the events lo..hi that are in group: starting
\* from "", every greater date replaces the date kept, so the date kept for a
\* range is the later of the dates kept for its two halves
RECURSIVE last_seen_of(_, _, _, _)
last_seen_of(events, group, lo, hi) ==
    IF lo > hi THEN <<>>
    ELSE IF lo = hi
    THEN IF lo \in group THEN LaterDate(<<>>, events[lo].last_seen) ELSE <<>>
    ELSE LET mid == (lo + hi) \div 2
         IN  LaterDate(last_seen_of(events, group, lo, mid),
                       last_seen_of(events, group, mid + 1, hi))

\* the keys of a dict in insertion order, given the set of the pairs
\* <<key, number of the item that inserted it>>
InsertionOrder(inserted) ==
    [p \in 1..Cardinality(inserted) |->
        (CHOOSE x \in inserted :
            Cardinality({y \in inserted : y[2] < x[2]}) = p - 1)[1]]

Least(S) == CHOOSE k \in S : \A j \in S : k <= j

\* lines 188-191: what the loop reads of each item
Events(items) ==
    SubSeq([k \in 1..Len(items) |->
               [identity |-> EventIdentity(items[k]),
                domain |-> EventDomain(items[k]),
                category |-> EventCategory(items[k]),
                last_seen |-> EventDate(items[k])]],
           1, Len(items))

\* lines 193-196 and 199-204: the row of an identity and a domain, whose
\* events are those numbered in group: the number of the events, their
\* categories, and the date kept.  The category field is the set of labels
\* that ", ".join writes in the iteration order of the set.
ActivityRow(events, identity, domain, group) ==
    [identity |-> identity, domain |-> domain,
     count |-> Cardinality(group),
     categories |-> {events[k].category : k \in group},
     last_seen |-> last_seen_of(events, group, 1, Len(events))]

\* line 199: the rows of an identity, whose events are those numbered in
\* mine, its domains in insertion order
IdentityRows(events, identity, mine) ==
    LET domains == {events[k].domain : k \in mine}
        order == InsertionOrder(
                    {<<d, Least({k \in mine : events[k].domain = d})>> :
                        d \in domains})
    IN  [j \in 1..Len(order) |->
            ActivityRow(events, identity, order[j],
                        {k \in mine : events[k].domain = order[j]})]

RECURSIVE Flatten(_)
Flatten(ss) == IF ss = <<>> THEN <<>> ELSE ss[1] \o Flatten(Tail(ss))

\* lines 187-204: the rows of the table, the identities in insertion order
ActivityRows(items) ==
    LET events == Events(items)
        all == 1..Len(events)
        identities == {events[k].identity : k \in all}
        order == InsertionOrder(
                    {<<i, Least({k \in all : events[k].identity = i})>> :
                        i \in identities})
    IN  Flatten([j \in 1..Len(order) |->
                    IdentityRows(events, order[j],
                                 {k \in all : events[k].identity = order[j]})])

\* the two counts in each other's column
DeploymentRow_Swapped(item) == <<item.type.label, item.count, item.activecount>>

\* lines 177-180
DeploymentRow(item) == <<item.type.label, item.activecount, item.count>>

\* the rows and the header of the table, for a list of items
present_as_table(items, report_type) ==
    IF report_type = "deployment"
    THEN [header |-> <<"Label", "Active", "Count">>,
          rows |-> [i \in 1..Len(items) |-> DeploymentRow(items[i])]]
    ELSE IF report_type = "activity"
    THEN [header |-> <<"Identity", "Domain", "Count", "Category", "Last Seen">>,
          rows |-> ActivityRows(items)]
    ELSE [header |-> <<>>, rows |-> <<>>]

\* the items of a data array kept as item numbers (SubSeq gives the sequence
\* in extension)
Items(report_type, data) ==
    SubSeq([i \in 1..Len(data) |-> ReportItem(report_type, data[i])],
           1, Len(data))

\* str.capitalize() of the two report types
capitalize(report_type) ==
    IF report_type = "deployment" THEN "Deployment" ELSE "Activity"

\* lines 318-324: the title line and the table.  What is printed of the table
\* is kept as the arguments present_as_table is called with; TableOf gives the
\* table itself.
Report(a, data) ==
    << [title |-> capitalize(a.report_type), from |-> a.from_date,
        to |-> a.to_date],
       [report_type |-> a.report_type, data |-> data] >>

TableOf(p) == present_as_table(Items(p.report_type, p.data), p.report_type)

\* lines 310-324: the page is appended; after a page of fewer than limit
\* entries the loop is left and the report printed, otherwise the offset
\* advances and the next pass of the loop calls query
ProcessPage ==
    /\ pc = "got_page"
    /\ LET data == Data(resp) IN
        /\ all_data' = Extend(all_data, data)
        /\ IF LastPage(data)
           THEN /\ printed' = printed \o Report(args, all_data')
                /\ pc' = "done"
                /\ UNCHANGED <<offset, qEndpoint>>
           ELSE /\ offset' = NextOffset(offset)
                /\ qEndpoint' = Endpoint(args, category_filter, offset')
                /\ pc' = "query"
                /\ UNCHANGED printed
    /\ UNCHANGED <<argv, env, err, args, token, net, qCaller, resp,
                   category_filter, fnVars>>

Next ==
    \/ ParseArgs
    \/ ValidateDates
    \/ LoadConfig
    \/ Authenticate
    \/ QueryGet
    \/ BuildCategoryFilter
    \/ ProcessPage

Spec == Init /\ [][Next]_vars

(***************************************************************************)
(* validate_dates called on its own, on every pair of date strings made of *)
(* at most MaxParts pieces.  The pieces put the keywords, parts of         *)
(* keywords, digits and a sign next to each other.                         *)
(***************************************************************************)
DatePieces ==
    { <<"-">>, <<"3">>, <<"9">>, <<"n", "o">>, <<"w">>,
      <<"d", "a", "y", "s">>, <<"w", "e", "e", "k", "s">>,
      <<"m", "i", "n", "u", "t", "e", "s">>,
      <<"s", "e", "c", "o", "n", "d", "s">> }

RECURSIVE Concats(_)
Concats(n) ==
    IF n = 0 THEN {<<>>}
    ELSE LET P == Concats(n - 1) IN P \cup {p \o q : p \in P, q \in DatePieces}

DateStrings == Concats(MaxParts)

InitValidator ==
    /\ argv = [report_type |-> "", from_date |-> Absent, to_date |-> Absent,
               verdict |-> Absent]
    /\ env = FALSE
    /\ pc = "fn"
    /\ err = "none"
    /\ args = NoArgs
    /\ token = NoneTok
    /\ net = <<>>
    /\ qEndpoint = NoEndpoint
    /\ qCaller = ""
    /\ resp = NoDataBody
    /\ category_filter = <<>>
    /\ offset = 0
    /\ all_data = <<>>
    /\ printed = <<>>
    /\ result = NoResult

InitValidateDates ==
    /\ InitValidator
    /\ call \in [fn : {"validate_dates"}, a : DateStrings, b : DateStrings]

CallValidateDates ==
    /\ pc = "fn"
    /\ call.fn = "validate_dates"
    /\ result' = validate_dates(call.a, call.b)
    /\ pc' = "fn_done"
    /\ UNCHANGED <<argv, env, err, args, runVars, call>>

SpecValidateDates == InitValidateDates /\ [][CallValidateDates]_vars

(***************************************************************************)
(* check_date called on its own, on every date string of at most MaxParts  *)
(* pieces.                                                                 *)
(***************************************************************************)
InitCheckDate ==
    /\ InitValidator
    /\ call \in [fn : {"check_date"}, a : DateStrings, b : {None}]

\* check_date has no raise statement and catches the ValueError of int()
CallCheckDate ==
    /\ pc = "fn"
    /\ call.fn = "check_date"
    /\ result' = Return(check_date(call.a))
    /\ pc' = "fn_done"
    /\ UNCHANGED <<argv, env, err, args, runVars, call>>

SpecCheckDate == InitCheckDate /\ [][CallCheckDate]_vars

(***************************************************************************)
(* validate_verdict called on its own, on None and on every verdict string *)
(* of at most MaxVerdictParts pieces: names in several cases, a name cut   *)
(* short, the rest of it, a comma and a space.                             *)
(***************************************************************************)
VerdictPieces ==
    { <<"A", "l", "l", "o", "w", "e", "d">>,
      <<"B", "L", "O", "C", "K", "E", "D">>,
      <<"p", "r", "o", "x", "i", "e", "d">>,
      <<"a", "l", "l", "o", "w">>, <<"e", "d">>, <<",">>, <<" ">> }

RECURSIVE VerdictConcats(_)
VerdictConcats(n) ==
    IF n = 0 THEN {<<>>}
    ELSE LET P == VerdictConcats(n - 1)
         IN  P \cup {p \o q : p \in P, q \in VerdictPieces}

VerdictStrings == VerdictConcats(MaxVerdictParts)

InitValidateVerdict ==
    /\ InitValidator
    /\ call \in [fn : {"validate_verdict"}, a : VerdictStrings \cup {None},
                 b : {None}]

CallValidateVerdict ==
    /\ pc = "fn"
    /\ call.fn = "validate_verdict"
    /\ result' = validate_verdict(call.a)
    /\ pc' = "fn_done"
    /\ UNCHANGED <<argv, env, err, args, runVars, call>>

SpecValidateVerdict == InitValidateVerdict /\ [][CallValidateVerdict]_vars

(***************************************************************************)
(* present_as_table called on its own, on every list of at most MaxEvents  *)
(* raw activity events.  The events share identities, domains and dates,   *)
(* one has none of the optional keys, and two carry an empty list.         *)
(***************************************************************************)
D_0101 == <<"2", "0", "2", "4", "-", "0", "1", "-", "0", "1">>
D_0105 == <<"2", "0", "2", "4", "-", "0", "1", "-", "0", "5">>

ActivityEvent(identity, domain, category, date) ==
    [identities |-> <<[label |-> identity]>>, domain |-> domain,
     policycategories |-> <<[label |-> category]>>, date |-> date]

RawEvents ==
    { ActivityEvent("alice", "example.com", "Malware", D_0101),
      ActivityEvent("alice", "example.com", "Phishing", D_0105),
      ActivityEvent("alice", "example.org", "Malware", D_0105),
      ActivityEvent("bob", "example.com", "Malware", D_0101),
      [verdict |-> "blocked"],
      [identities |-> <<[label |-> "alice"]>>, domain |-> "example.com",
       policycategories |-> <<>>, date |-> D_0101],
      [identities |-> <<>>, domain |-> "example.com",
       policycategories |-> <<[label |-> "Malware"]>>, date |-> D_0105] }

EventLists == UNION {[1..n -> RawEvents] : n \in 0..MaxEvents}

\* lines 188 and 190: [0] of a list that is present and empty
ItemRaises(item) ==
    \/ "identities" \in DOMAIN item /\ item.identities = <<>>
    \/ "policycategories" \in DOMAIN item /\ item.policycategories = <<>>

\* the table returned, or the IndexError of the first item that raises
present_as_table_outcome(items, report_type) ==
    IF report_type = "activity" /\ \E k \in 1..Len(items) : ItemRaises(items[k])
    THEN Raise("IndexError")
    ELSE Return(present_as_table(items, report_type))

InitPresentActivity ==
    /\ InitValidator
    /\ call \in [fn : {"present_as_table"}, a : EventLists, b : {"activity"}]

CallPresentActivity ==
    /\ pc = "fn"
    /\ call.fn = "present_as_table"
    /\ call.b = "activity"
    /\ result' = present_as_table_outcome(call.a, call.b)
    /\ pc' = "fn_done"
    /\ UNCHANGED <<argv, env, err, args, runVars, call>>

SpecPresentActivity == InitPresentActivity /\ [][CallPresentActivity]_vars

(***************************************************************************)
(* present_as_table called on its own, on every list of at most MaxEvents  *)
(* deployment items; an item may occur in a list more than once.           *)
(***************************************************************************)
DeploymentItem(label, active, count) ==
    [type |-> [label |-> label], activecount |-> active, count |-> count]

DeploymentItems ==
    { DeploymentItem("Windows", 3, 10), DeploymentItem("Windows", 1, 2),
      DeploymentItem("macOS", 0, 5), DeploymentItem("Linux", 2, 2) }

DeploymentLists == UNION {[1..n -> DeploymentItems] : n \in 0..MaxEvents}

InitPresentDeployment ==
    /\ InitValidator
    /\ call \in [fn : {"present_as_table"}, a : DeploymentLists,
                 b : {"deployment"}]

CallPresentDeployment ==
    /\ pc = "fn"
    /\ call.fn = "present_as_table"
    /\ call.b = "deployment"
    /\ result' = present_as_table_outcome(call.a, call.b)
    /\ pc' = "fn_done"
    /\ UNCHANGED <<argv, env, err, args, runVars, call>>

SpecPresentDeployment == InitPresentDeployment /\ [][CallPresentDeployment]_vars

(***************************************************************************)
(* Runs with valid arguments against a server that may stay unavailable:   *)
(* after a 503 it may answer the retry with 503 again, however many 503 it *)
(* has given.  The program takes its next step whenever it has one.        *)
(***************************************************************************)
LastIs503(h) ==
    h # <<>> /\ h[Len(h)].method = "GET" /\ h[Len(h)].status = 503

GetOutcomesOutage(ep, h) ==
    GetOutcomes(ep, h)
    \cup (IF LastIs503(h)
          THEN {[status |-> 503, exc |-> "HTTPError", body |-> NoDataBody]}
          ELSE {})

QueryGetOutage == QueryWith(GetOutcomesOutage(qEndpoint, net))

InitLive ==
    /\ Init
    /\ argv.from_date = S_1days
    /\ argv.to_date = Absent
    /\ argv.verdict = Absent
    /\ argv.report_type \in report_type_choices
    /\ env = TRUE

NextLive ==
    \/ ParseArgs
    \/ ValidateDates
    \/ LoadConfig
    \/ Authenticate
    \/ QueryGetOutage
    \/ BuildCategoryFilter
    \/ ProcessPage

SpecLive == InitLive /\ [][NextLive]_vars /\ WF_vars(NextLive)

(***************************************************************************)
(* Reading the history of a run.                                           *)
(***************************************************************************)
IsPageGet(x) == x.method = "GET" /\ x.url.path # "categories"
IsCategoriesGet(x) == x.method = "GET" /\ x.url.path = "categories"
Succeeded(x) == x.exc = "none"

\* the page requests of the history, and those that were answered with a page
PageGets(h) == {i \in 1..Len(h) : IsPageGet(h[i])}
PagesReceived(h) == {i \in PageGets(h) : Succeeded(h[i])}

\* the data arrays received from the report endpoint, concatenated in order
RECURSIVE ReceivedData(_)
ReceivedData(h) ==
    IF h = <<>> THEN <<>>
    ELSE (IF IsPageGet(h[1]) /\ Succeeded(h[1]) /\ "data" \in DOMAIN h[1].body
          THEN h[1].body.data ELSE <<>>) \o ReceivedData(Tail(h))

PageLen(x) == IF "data" \in DOMAIN x.body THEN Len(x.body.data) ELSE 0

\* the offsets of the pages received, in request order
RECURSIVE OffsetsReceived(_)
OffsetsReceived(h) ==
    IF h = <<>> THEN <<>>
    ELSE (IF IsPageGet(h[1]) /\ Succeeded(h[1]) THEN <<h[1].url.offset>> ELSE <<>>)
         \o OffsetsReceived(Tail(h))

(***************************************************************************)
(* Claims.                                                                 *)
(***************************************************************************)

\* C1: the page requests are issued at offsets 0, 100, 200, ... in that order
\* (the k-th page received was requested at offset 100 * (k - 1), and every page
\* request is made at 100 times the number of pages received before it); no
\* request follows the first page of fewer than 100 entries, and a page of 100
\* entries or more never ends the loop; the accumulator is the concatenation of
\* the data arrays received, in request order (of all but the last one while
\* that one is not appended yet); so a finished loop after k full pages and a
\* short page of s entries has made k + 1 successful requests and holds
\* 100 * k + s entries.
C1_Pagination ==
    /\ \A i \in PageGets(net) :
          net[i].url.offset =
              100 * Cardinality({j \in PagesReceived(net) : j < i})
    /\ \A i \in PagesReceived(net) :
          /\ PageLen(net[i]) < 100 => i = Len(net)
          /\ (PageLen(net[i]) >= 100 /\ i = Len(net)) => pc \in {"got_page", "query"}
    /\ pc # "got_page" => all_data = ReceivedData(net)
    /\ pc = "got_page" =>
          all_data = ReceivedData(SubSeq(net, 1, Len(net) - 1))
    /\ pc = "done" =>
          LET k == Cardinality({i \in PagesReceived(net) : PageLen(net[i]) = 100})
              s == PageLen(net[Len(net)])
          IN  /\ s < 100
              /\ Cardinality(PagesReceived(net)) = k + 1
              /\ Len(all_data) = 100 * k + s

\* pages of sizes 100, 100, 37: three requests at offsets 0, 100, 200 and 237
\* accumulated entries
C1_Witness ==
    /\ pc = "done"
    /\ OffsetsReceived(net) = <<0, 100, 200>>
    /\ Cardinality(PageGets(net)) = 3
    /\ PageLen(net[Len(net)]) = 37
    /\ Len(all_data) = 237

\* C2: in a run in which no GET is answered with 401, once a GET has been
\* issued the token endpoint has been invoked exactly once, that POST is the
\* first exchange of the run, and every GET (retries after 429/503/504
\* included) carries the token that POST returned, which is still the cached
\* token; before the first GET the token endpoint was invoked at most once.
C2_TokenOnce ==
    (\A i \in Gets(net) : net[i].status # 401) =>
        /\ Cardinality(Posts(net)) <= 1
        /\ Gets(net) # {} =>
              /\ Posts(net) = {1}
              /\ token = net[1].body
              /\ \A i \in Gets(net) : net[i].bearer = net[1].body.access_token

\* a finished run of four GETs, one of them a retry after a 429
C2_Witness ==
    /\ pc = "done"
    /\ Cardinality(Gets(net)) >= 4
    /\ \E i \in Gets(net) : net[i].status = 429
    /\ Cardinality(Posts(net)) = 1

C4_NoRetryOtherwise ==
    /\ \A i \in Gets(net) :
          (net[i].exc # "none" /\ net[i].status \notin {429, 503, 504}) =>
              /\ i = Len(net)
              /\ pc = "error"
              /\ err = net[i].exc
              /\ net[i].sleep = 0
    /\ \A i \in Gets(net) :
          (i < Len(net) /\ net[i + 1].url = net[i].url) =>
              net[i].status \in {429, 503, 504}

\* a page request that times out after a page was received: the run ends there
C4_Witness ==
    /\ pc = "error"
    /\ err = "Timeout"
    /\ net[Len(net)].exc = "Timeout"
    /\ IsPageGet(net[Len(net)])
    /\ Cardinality(PagesReceived(net)) = 1

\* C5 as stated: a GET answered with 401 is followed by a backoff sleep and a
\* new GET of the same endpoint, as after 429, 503 and 504.
C5_Retries401 ==
    \A i \in Gets(net) :
        net[i].status = 401 =>
            /\ net[i].sleep > 0
            /\ i = Len(net) => pc = "query" /\ qEndpoint = net[i].url
            /\ i < Len(net) => net[i + 1].url = net[i].url

\* C5, amended: a GET answered with 401 is not retried: there is no sleep, it
\* is the last request of the run, and the run ends with the HTTPError; the
\* fixed backoff (60 s after 429, 30 s after 503 and 504) is applied after
\* these three statuses only.
C5_NoRetryOn401 ==
    \A i \in Gets(net) :
        /\ net[i].status = 401 =>
              /\ net[i].sleep = 0
              /\ i = Len(net)
              /\ pc = "error" /\ err = "HTTPError"
        /\ net[i].sleep # 0 <=>
              (net[i].exc = "HTTPError" /\ net[i].status \in {429, 503, 504})
        /\ net[i].sleep \in {0, 30, 60}

\* the second page request is answered with 401 and the run ends
C5_Witness ==
    /\ pc = "error"
    /\ err = "HTTPError"
    /\ IsPageGet(net[Len(net)])
    /\ net[Len(net)].status = 401
    /\ net[Len(net)].url.offset = 100

(***************************************************************************)
(* What the claims call valid arguments.                                   *)
(***************************************************************************)
RelativeWords ==
    { <<"d", "a", "y", "s">>, <<"w", "e", "e", "k", "s">>,
      <<"m", "i", "n", "u", "t", "e", "s">>, <<"n", "o", "w">>,
      <<"s", "e", "c", "o", "n", "d", "s">> }

\* s contains one of the relative keywords
IsRelativeExpr(s) ==
    \E i \in 1..Len(s) : \E j \in i..Len(s) : SubSeq(s, i, j) \in RelativeWords

\* s is an integer timestamp not later than now
IsPastTimestamp(s) == IntParses(s) /\ IntOf(s) <= Now

GivenDate(d) == IF d = Absent THEN <<"n", "o", "w">> ELSE d

InvalidDate(d) == ~IsRelativeExpr(d) /\ ~IsPastTimestamp(d)

InvalidVerdict(v) ==
    /\ v # Absent
    /\ v # <<>>
    /\ \E t \in verdicts(v) :
          t \notin { <<"a", "l", "l", "o", "w", "e", "d">>,
                     <<"b", "l", "o", "c", "k", "e", "d">>,
                     <<"p", "r", "o", "x", "i", "e", "d">> }

InvalidArgs(av) ==
    \/ av.from_date # Absent /\ InvalidDate(av.from_date)
    \/ InvalidDate(GivenDate(av.to_date))
    \/ /\ av.from_date # Absent
       /\ IsRelativeExpr(av.from_date) # IsRelativeExpr(GivenDate(av.to_date))
    \/ InvalidVerdict(av.verdict)

\* C6: in a run whose arguments are invalid (a date that is neither relative
\* nor a timestamp not later than now, dates of mixed kinds, a verdict with a
\* token outside allowed, blocked, proxied) no HTTP request is ever issued, no
\* token is obtained, the run never gets past the validation of its
\* arguments, and where it ends it ends with an error.
C6_FailFast ==
    InvalidArgs(argv) =>
        /\ net = <<>>
        /\ token = NoneTok
        /\ pc \in {"parse", "validate", "error"}
        /\ pc = "error" => err \in {"SystemExit", "TypeError", "ValueError"}

\* a from_date in the future: the run ends in validate_dates, nothing was sent
C6_Witness ==
    /\ argv.from_date = <<"9">>
    /\ argv.to_date = <<"3">>
    /\ argv.report_type = "activity"
    /\ pc = "error"
    /\ err = "TypeError"
    /\ net = <<>>

\* C7: when the POST to the token endpoint fails (an error status, a
\* connection error, a timeout), it is the only request of the run: it is not
\* repeated, no GET is issued, the cached token stays unset and the run ends
\* with that failure.
C7_AuthFailure ==
    \A i \in Posts(net) :
        net[i].exc # "none" =>
            /\ Len(net) = 1
            /\ token = NoneTok
            /\ pc = "error"
            /\ err = net[i].exc

\* the token endpoint answers 401
C7_Witness ==
    /\ Len(net) = 1
    /\ net[1].method = "POST"
    /\ net[1].status = 401
    /\ pc = "error"
    /\ err = "HTTPError"
    /\ token = NoneTok

\* C8: in a deployment run no request to the categories endpoint is issued.
C8_DeploymentSkipsCategories ==
    argv.report_type = "deployment" =>
        \A i \in Gets(net) : ~IsCategoriesGet(net[i])

IsSecurity(e) == e.type = "security"

\* the ids of the entries whose type is "security", in the order of the list
SecurityIds(cats) ==
    LET sec == SelectSeq(cats, IsSecurity)
    IN  [i \in 1..Len(sec) |-> sec[i].id]

\* C9: in an activity run, once a page request is issued the categories
\* endpoint has been queried successfully exactly once, before it; every page
\* request carries the from, to, limit and verdict (if given) of the run and,
\* as categories, the ids of exactly the entries of the categories response
\* whose type is "security"; two page requests differ in offset only.
C9_ActivityRequests ==
    (args.report_type = "activity" /\ PageGets(net) # {}) =>
        LET got == {i \in Gets(net) : IsCategoriesGet(net[i]) /\ Succeeded(net[i])}
            c == CHOOSE i \in got : TRUE
        IN  /\ Cardinality(got) = 1
            /\ \A i \in PageGets(net) :
                  /\ c < i
                  /\ net[i].url.path = "activity"
                  /\ net[i].url.from = args.from_date
                  /\ net[i].url.to = args.to_date
                  /\ net[i].url.limit = 100
                  /\ IF Truthy(args.verdict)
                     THEN net[i].url.verdict = args.verdict
                     ELSE "verdict" \notin DOMAIN net[i].url
                  /\ net[i].url.categories = SecurityIds(Data(net[c].body))
            /\ \A i, j \in PageGets(net) :
                  [net[i].url EXCEPT !.offset = 0] = [net[j].url EXCEPT !.offset = 0]

\* C10: validate_dates(a, b) fails exactly when one of a and b is relative
\* (contains one of days, weeks, minutes, now, seconds) and the other is not;
\* it fails with a ValueError, and otherwise returns True.
C10_ValidateDates ==
    (pc = "fn_done" /\ call.fn = "validate_dates") =>
        /\ result.exc # "none" <=>
              (IsRelativeExpr(call.a) # IsRelativeExpr(call.b))
        /\ result.exc \in {"none", "ValueError"}
        /\ result.exc = "none" => result.val = <<"True">>

\* an absolute from_date with a to_date whose keyword spans two pieces
C10_Witness ==
    /\ pc = "fn_done"
    /\ call.fn = "validate_dates"
    /\ call.a = <<"3">>
    /\ call.b = <<"n", "o", "w">>
    /\ result.exc = "ValueError"

\* C11: check_date(v) returns v unchanged when v contains one of the keywords
\* days, weeks, minutes, seconds, now, or is an integer timestamp not later
\* than now; for a timestamp later than now and for any other string it
\* signals an error instead of returning a value.
C11_CheckDate ==
    (pc = "fn_done" /\ call.fn = "check_date") =>
        IF IsRelativeExpr(call.a) \/ IsPastTimestamp(call.a)
        THEN result = Return(call.a)
        ELSE result.exc # "none"

(***************************************************************************)
(* What the claims call a valid verdict.                                   *)
(***************************************************************************)
AllowedWords ==
    { <<"a", "l", "l", "o", "w", "e", "d">>,
      <<"b", "l", "o", "c", "k", "e", "d">>,
      <<"p", "r", "o", "x", "i", "e", "d">> }

UpperCase ==
    [a |-> "A", b |-> "B", c |-> "C", d |-> "D", e |-> "E", i |-> "I",
     k |-> "K", l |-> "L", o |-> "O", p |-> "P", r |-> "R", w |-> "W",
     x |-> "X"]

\* t is one of the three names, in any mix of cases
IsAllowedWord(t) ==
    \E w \in AllowedWords :
        /\ Len(t) = Len(w)
        /\ \A i \in 1..Len(w) : t[i] = w[i] \/ t[i] = UpperCase[w[i]]

\* the positions around the entries: before the string, its commas, after it
EntryBounds(s) == {0, Len(s) + 1} \cup {i \in 1..Len(s) : s[i] = ","}

\* the entry between the bounds p and q, without the spaces around it
TrimmedEntry(s, p, q) ==
    LET inside == {i \in (p + 1)..(q - 1) : s[i] # " "}
    IN  IF inside = {} THEN <<>>
        ELSE SubSeq(s, CHOOSE i \in inside : \A j \in inside : i <= j,
                       CHOOSE i \in inside : \A j \in inside : j <= i)

ValidVerdict(s) ==
    \/ s = None
    \/ s = <<>>
    \/ \A p, q \in EntryBounds(s) :
          (p < q /\ \A m \in EntryBounds(s) : ~(p < m /\ m < q)) =>
              IsAllowedWord(TrimmedEntry(s, p, q))

\* C12: validate_verdict succeeds, returning its argument unchanged, exactly
\* when the argument is None or empty or every comma-separated entry, trimmed
\* and lower-cased, is one of allowed, blocked, proxied; otherwise it fails
\* with a ValueError, which argparse reports as an argument error.
C12_ValidateVerdict ==
    (pc = "fn_done" /\ call.fn = "validate_verdict") =>
        /\ result.exc = "none" <=> ValidVerdict(call.a)
        /\ result.exc = "none" => result.val = call.a
        /\ result.exc # "none" => result.exc = "ValueError"

\* "Allowed, BLOCKED" is accepted and returned as given
C12_Witness ==
    /\ pc = "fn_done"
    /\ call.fn = "validate_verdict"
    /\ call.a = <<"A", "l", "l", "o", "w", "e", "d", ",", " ",
                  "B", "L", "O", "C", "K", "E", "D">>
    /\ result = Return(call.a)

(***************************************************************************)
(* What the claims say of the rows of an activity table.                   *)
(***************************************************************************)
\* a is before b in lexicographic order
LexLess(a, b) ==
    \E i \in 1..Len(b) :
        /\ i <= Len(a) + 1
        /\ SubSeq(a, 1, i - 1) = SubSeq(b, 1, i - 1)
        /\ i = Len(a) + 1 \/ CodePoint(a[i]) < CodePoint(b[i])

IdentityOf(e) ==
    IF "identities" \in DOMAIN e /\ e.identities # <<>>
    THEN e.identities[1].label ELSE "Unknown"
DomainOf(e) == IF "domain" \in DOMAIN e THEN e.domain ELSE "N/A"
LabelsOf(e) ==
    IF "policycategories" \notin DOMAIN e THEN {"N/A"}
    ELSE {e.policycategories[i].label : i \in 1..1 \cap DOMAIN e.policycategories}
DateOf(e) == IF "date" \in DOMAIN e THEN e.date ELSE <<"N", "/", "A">>

\* the events of the list that belong to the row r
EventsOfRow(items, r) ==
    {k \in 1..Len(items) :
        IdentityOf(items[k]) = r.identity /\ DomainOf(items[k]) = r.domain}

Aggregated(items, rows) ==
    /\ {<<rows[j].identity, rows[j].domain>> : j \in 1..Len(rows)}
         = {<<IdentityOf(items[k]), DomainOf(items[k])>> : k \in 1..Len(items)}
    /\ \A i, j \in 1..Len(rows) :
          (rows[i].identity = rows[j].identity /\ rows[i].domain = rows[j].domain)
             => i = j
    /\ \A j \in 1..Len(rows) :
          LET mine == EventsOfRow(items, rows[j])
          IN  /\ rows[j].count = Cardinality(mine)
              /\ rows[j].categories = UNION {LabelsOf(items[k]) : k \in mine}
              /\ \E k \in mine : rows[j].last_seen = DateOf(items[k])
              /\ \A k \in mine : ~LexLess(rows[j].last_seen, DateOf(items[k]))

\* C13: for every list of raw activity events present_as_table("activity")
\* gives a table with exactly one row per (identity, domain) pair of the list
\* (identity defaulting to "Unknown", domain to "N/A"); the count of a row is
\* the number of events of its pair, its category field holds exactly the
\* category labels of those events, its last-seen field their greatest date.
C13_ActivityAggregation ==
    (pc = "fn_done" /\ call.fn = "present_as_table" /\ call.b = "activity") =>
        /\ result.exc = "none"
        /\ Aggregated(call.a, result.val.rows)

\* C14: for every list of deployment items present_as_table("deployment")
\* gives exactly one row per item, in the order of the list, the row of an
\* item being its type label, its activecount and its count; items are
\* neither merged nor dropped.
C14_DeploymentRows ==
    (pc = "fn_done" /\ call.fn = "present_as_table" /\ call.b = "deployment") =>
        /\ result.exc = "none"
        /\ Len(result.val.rows) = Len(call.a)
        /\ \A i \in 1..Len(call.a) :
              result.val.rows[i] =
                  <<call.a[i].type.label, call.a[i].activecount, call.a[i].count>>

\* the item {type: {label: Windows}, activecount: 3, count: 10} given twice,
\* after another item: three rows, the row [Windows, 3, 10] twice
C14_Witness ==
    /\ pc = "fn_done"
    /\ call.fn = "present_as_table"
    /\ call.b = "deployment"
    /\ Len(call.a) = 3
    /\ call.a[1].type.label = "macOS"
    /\ result.exc = "none"
    /\ result.val.rows = << <<"macOS", 0, 5>>, <<"Windows", 3, 10>>,
                            <<"Windows", 3, 10>> >>

(***************************************************************************)
(* How a run ends.                                                         *)
(***************************************************************************)
Ended == pc \in {"done", "error"}

\* the last exchange is a GET answered with 429, 503 or 504
LastIsTransient ==
    /\ net # <<>>
    /\ net[Len(net)].method = "GET"
    /\ net[Len(net)].status \in {429, 503, 504}

\* the last exchange is a report page of 100 entries or more
LastIsFullPage ==
    /\ net # <<>>
    /\ IsPageGet(net[Len(net)])
    /\ Succeeded(net[Len(net)])
    /\ PageLen(net[Len(net)]) >= 100

\* the number of 429/503/504 answers at the end of the history
TransientRun ==
    LET other == {i \in 1..Len(net) :
                    ~(net[i].method = "GET" /\ net[i].status \in {429, 503, 504})}
    IN  Len(net) - (IF other = {} THEN 0
                    ELSE CHOOSE i \in other : \A j \in other : j <= i)

IsTransientAnswer(x) == x.method = "GET" /\ x.status \in {429, 503, 504}

NotTransientAnswer(x) == ~IsTransientAnswer(x)

WithoutTransient(h) == SelectSeq(h, NotTransientAnswer)

\* the report page requests of a history, in order
PageRequests(h) == SelectSeq(h, IsPageGet)

C17_PrintOnceAtEnd ==
    /\ Len(printed) \in {0, 2}
    /\ printed # <<>> =>
          /\ pc = "done"
          /\ err = "none"
          /\ IsPageGet(net[Len(net)])
          /\ Succeeded(net[Len(net)])
          /\ PageLen(net[Len(net)]) < 100
          /\ printed[2].data = ReceivedData(net)
    /\ pc = "error" => printed = <<>>
    /\ pc # "done" => printed = <<>>

\* two full pages were received and the third request is answered with 404:
\* the run ends with the HTTPError and prints nothing
C17_Witness ==
    /\ pc = "error"
    /\ err = "HTTPError"
    /\ Len(all_data) = 200
    /\ IsPageGet(net[Len(net)])
    /\ net[Len(net)].status = 404
    /\ net[Len(net)].url.offset = 200
    /\ printed = <<>>

====
